---- MODULE Spec2Model ----
(***************************************************************************)
(* Connection orchestration of the VPN automation application:             *)
(*   core/connection_manager.py  ConnectionManager (the orchestrator)      *)
(*   vcal/vpn_manager.py         VPNManager (registry, active-connection   *)
(*                               table, profile store)                     *)
(*   vcal/drivers/*.py           FortiClientDriver, GlobalProtectDriver    *)
(*   vcal/base_vpn_driver.py     BaseVPNDriver (contract of any other      *)
(*                               registered driver)                        *)
(*   core/remote_access_manager.py  RemoteAccessManager.initiate_access    *)
(*   automation_engine/engine.py    AutomationEngine                       *)
(* Specifications:                                                         *)
(*   Spec              serialized calls on one ConnectionManager, each     *)
(*                     action one whole call from entry to return          *)
(*   ConcSpec          two connect_to_profile calls from different threads *)
(*   StoreSpec         the profile store called directly                   *)
(*   CorruptStoreSpec  the same, with profile files that do not parse      *)
(*   RegSpec           the driver registry called directly                 *)
(*   DriverSpec        a built-in driver called directly                   *)
(*   EngineSpec        the automation engine called directly, a call       *)
(*                     advancing probe by probe and sleep by sleep         *)
(*   EngineLiveSpec    the same, with a call in progress always going on   *)
(***************************************************************************)
EXTENDS Integers, Sequences, FiniteSets, TLC

\* Python's None, for the optional string current_active_profile.
None == "<None>"

\* Profile names. The profile dialog strips the name and rejects an empty
\* one (ui/vpn_profile_edit_dialog.py:292-296), so names are non-empty.
ProfileNames == {"A", "B"}

\* str.lower() on the type identifiers that occur in the model.
Lower(s) ==
  CASE s = "FortiClient" -> "forticlient"
    [] s = "Custom" -> "custom"
    [] s = "RDP" -> "rdp"
    [] s = "Browser" -> "browser"
    [] s = "None" -> "none"
    [] OTHER -> s

\* Python truthiness of an optional string: None and "" are falsy.
Truthy(s) == s # None /\ s # ""

(***************************************************************************)
(* Profile records and their config.                                      *)
(***************************************************************************)
\* config["remote_access"]: present = FALSE stands for a missing or empty
\* descriptor; details is "" (missing/empty), "dict" (a mapping with the
\* host or url) or "str" (a truthy value that is not a mapping).
NoRemoteAccess == [present |-> FALSE, type |-> "", details |-> ""]

RemoteAccess(t, d) == [present |-> TRUE, type |-> t, details |-> d]

\* config: the automation sequence is kept by its length.
Config(n, ra) == [automation_sequence |-> n, remote_access |-> ra]

\* The (type, config) pairs callers save in the model: both built-in
\* drivers, a type in mixed case, a custom driver (an unregistered type
\* until it is registered) and a record without a type; remote access
\* absent, well-formed, with details that are no mapping, of type "None",
\* and of a type the remote access manager does not support.
SavePairs ==
  { <<"forticlient", Config(0, NoRemoteAccess)>>,
    <<"forticlient", Config(0, RemoteAccess("ssh", "dict"))>>,
    <<"FortiClient", Config(2, RemoteAccess("RDP", "dict"))>>,
    <<"globalprotect", Config(0, RemoteAccess("RDP", "str"))>>,
    <<"custom", Config(0, RemoteAccess("None", ""))>>,
    <<"", Config(0, NoRemoteAccess)>> }

\* What load_profile returns for a missing file (None).
NoProfile == [name |-> None, type |-> "", config |-> Config(0, NoRemoteAccess)]

\* A profile file whose content json.load cannot parse.
CorruptRecord ==
  [name |-> None, type |-> "<unreadable>", config |-> Config(0, NoRemoteAccess)]

(***************************************************************************)
(* Drivers.                                                                *)
(***************************************************************************)
BuiltinDrivers == {"FortiClientDriver", "GlobalProtectDriver"}

\* Besides these, "CustomDriver" stands for any other BaseVPNDriver subclass
\* registered through register_driver; what its constructor, connect(),
\* disconnect() and get_status() do is chosen by the environment.

\* What create_connection returns when it has no driver (None).
NoDriver ==
  [id |-> 0, cls |-> "", profile_name |-> None,
   vpn_config |-> Config(0, NoRemoteAccess),
   is_connected |-> FALSE, automation_engine |-> FALSE]

\* Environment of one call: whether AutomationEngine() could be built,
\* what a custom driver's constructor and its connect / disconnect /
\* get_status do, what the launched remote-access program reports, whether
\* os.listdir fails.
DefaultEnv ==
  [engine |-> TRUE, ctor |-> "ok", drv |-> "ok", launch |-> "ok", listdir |-> "ok"]

\* connect_to_profile: engine and launch are read on a built-in driver's
\* path only, ctor and drv on a custom driver's path only, so each family
\* is varied with the other at its default.
ConnectEnvs ==
  {[DefaultEnv EXCEPT !.engine = e, !.launch = l] :
     e \in BOOLEAN, l \in {"ok", "fail"}}
    \cup {[DefaultEnv EXCEPT !.ctor = "raise"]}
    \cup {[DefaultEnv EXCEPT !.drv = d] : d \in {"fail", "raise"}}

DriverEnvs == {[DefaultEnv EXCEPT !.drv = d] : d \in {"ok", "fail", "raise"}}

ListEnvs == {[DefaultEnv EXCEPT !.listdir = l] : l \in {"ok", "raise"}}

VARIABLES
  manager_kind,            \* class of the vpn_manager handed to the orchestrator
  profiles,                \* profile store: name -> saved record (files on disk)
  registered_drivers,      \* VPNManager.registered_drivers: type key -> class
  active_connections,      \* VPNManager.active_connections: name -> driver
  current_active_profile,  \* ConnectionManager.current_active_profile
  last,                    \* the last call: arguments, state before, result
  connected_since,         \* profile whose connect returned success with no
                           \* successful disconnect since (None otherwise)
  escaped,                 \* an exception propagated out of a boundary call
  threads,                 \* unserialized callers: caller -> its call in progress
  store_call,              \* profile store on its own: the last call and its result
  saved,                   \* name -> the profile its caller saved last (absent
                           \* once deleted): the map the store is compared to
  registrations,           \* registry on its own: the register_driver calls made,
                           \* in order, each as <<type, class>>
  created,                 \* name -> the driver create_connection returned for it,
                           \* with the type asked and the registrations made before
  reg_call,                \* registry on its own: the last call and its result
  vpn_driver,              \* a built-in driver on its own: the instance
  steps,                   \* ... the automation_sequence of its config
  driver_call,             \* ... the last call on it and its result
  pyautogui_available,     \* automation engine on its own: PYAUTOGUI_AVAILABLE
  engine_run               \* ... the call in progress, its clock and its probes

\* The variables only the specification of unserialized callers changes.
conc_vars == <<threads>>

\* The variables only the specifications of the profile store change.
store_vars == <<store_call, saved>>

\* The variables only the specification of the driver registry changes.
reg_vars == <<registrations, created, reg_call>>

\* The variables only the specification of a driver on its own changes.
driver_vars == <<vpn_driver, steps, driver_call>>

\* The variables only the specifications of the automation engine change.
engine_vars == <<pyautogui_available, engine_run>>

\* The variables the specification of serialized calls leaves alone.
aside == <<conc_vars, store_vars, reg_vars, driver_vars, engine_vars>>

\* The variables the specification of unserialized callers leaves alone.
conc_aside ==
  <<last, connected_since, escaped, store_vars, reg_vars, driver_vars,
    engine_vars>>

vars == <<manager_kind, profiles, registered_drivers, active_connections,
          current_active_profile, last, connected_since, escaped, aside>>

\* dict helpers
Put(f, k, v) == [x \in (DOMAIN f) \cup {k} |-> IF x = k THEN v ELSE f[x]]

Del(f, k) == [x \in (DOMAIN f) \ {k} |-> f[x]]

EmptyDict == [x \in {} |-> x]

\* A new object's identity: distinct from every driver now in the table.
FreshId(conns) ==
  CHOOSE i \in 1..(Cardinality(DOMAIN conns) + 1) :
    \A n \in DOMAIN conns : conns[n].id # i

(***************************************************************************)
(* Results of the modelled calls.                                          *)
(***************************************************************************)
\* The record an orchestrator call leaves: what it returned (ok, msg,
\* status, listing), the state it left (active, conns), the collaborator
\* calls it made in order (events), what the driver and the remote-access
\* collaborator did (drv, ra: "-" when not called), whether an exception
\* reached the orchestrator's boundary (raised) and whether it propagated
\* to the caller (escaped).
Outcome(ok, msg, active, conns, events, drv, ra) ==
  [ok |-> ok, msg |-> msg, status |-> "", listing |-> <<>>,
   active |-> active, conns |-> conns, events |-> events,
   drv |-> drv, ra |-> ra, raised |-> FALSE, escaped |-> FALSE]

\* The same, for a call whose body raised with the state as given.
Raised(active, conns, events, drv, ra) ==
  [Outcome(FALSE, "", active, conns, events, drv, ra) EXCEPT !.raised = TRUE]

(***************************************************************************)
(* Profile store (VPNManager.save_profile / load_profile / delete_profile /*)
(* get_all_profiles).                                                      *)
(***************************************************************************)
\* Mutant of save_profile: the config is not written.
save_profile_without_config(store, profile_name, vpn_type, vpn_config) ==
  Put(store, profile_name,
      [name |-> profile_name, type |-> Lower(vpn_type),
       config |-> Config(0, NoRemoteAccess)])

\* The file <profile_name>.json is written with the name, the type in
\* lower case and the config. A config is a JSON value (a dict of strings,
\* numbers, lists and dicts), which json.dump / json.load give back as it
\* was.
save_profile(store, profile_name, vpn_type, vpn_config) ==
  Put(store, profile_name,
      [name |-> profile_name, type |-> Lower(vpn_type), config |-> vpn_config])

\* None (NoProfile) when the file is missing or json.load raised.
load_profile(store, profile_name) ==
  IF profile_name \in DOMAIN store /\ store[profile_name] # CorruptRecord
    THEN store[profile_name]
    ELSE NoProfile

\* Mutant of delete_profile: True is returned, the file stays.
delete_profile_keeps_file(store, profile_name) ==
  IF profile_name \notin DOMAIN store
    THEN [ok |-> FALSE, store |-> store]
    ELSE [ok |-> TRUE, store |-> store]

delete_profile(store, profile_name) ==
  IF profile_name \notin DOMAIN store
    THEN [ok |-> FALSE, store |-> store]
    ELSE [ok |-> TRUE, store |-> Del(store, profile_name)]

\* os.listdir(profiles_dir): the file names, in an order of its choosing.
listdir(store) ==
  {files \in [1..Cardinality(DOMAIN store) -> DOMAIN store] :
     \A i, j \in DOMAIN files : i # j => files[i] # files[j]}

\* Mutant of collect_profiles: the loop ends at the first file that does
\* not load.
RECURSIVE collect_profiles_until_unreadable(_, _)
collect_profiles_until_unreadable(store, files) ==
  IF files = <<>>
    THEN <<>>
    ELSE LET profile_data == load_profile(store, Head(files)) IN
           IF profile_data # NoProfile
             THEN <<profile_data>> \o collect_profiles_until_unreadable(store, Tail(files))
             ELSE <<>>

\* The loop of get_all_profiles: each file is loaded in turn and appended
\* when load_profile returned a record.
RECURSIVE collect_profiles(_, _)
collect_profiles(store, files) ==
  IF files = <<>>
    THEN <<>>
    ELSE LET profile_data == load_profile(store, Head(files))
             rest == collect_profiles(store, Tail(files))
         IN IF profile_data # NoProfile THEN <<profile_data>> \o rest ELSE rest

\* os.listdir may fail; otherwise every record that loads is listed.
get_all_profiles(store, files, env) ==
  IF env.listdir = "raise"
    THEN [raised |-> TRUE, listing |-> <<>>]
    ELSE [raised |-> FALSE, listing |-> collect_profiles(store, files)]

(***************************************************************************)
(* Drivers.                                                                *)
(***************************************************************************)
\* FortiClientDriver.__init__ / GlobalProtectDriver.__init__ keep an engine
\* unless AutomationEngine() raised; BaseVPNDriver.__init__ leaves the
\* engine None. A custom constructor may raise.
construct(cls, id, profile_name, vpn_config, env) ==
  IF cls \notin BuiltinDrivers /\ env.ctor = "raise"
    THEN [raised |-> TRUE, driver |-> NoDriver]
    ELSE [raised |-> FALSE,
          driver |-> [id |-> id, cls |-> cls, profile_name |-> profile_name,
                      vpn_config |-> vpn_config, is_connected |-> FALSE,
                      automation_engine |-> (cls \in BuiltinDrivers /\ env.engine)]]

\* Mutant of builtin_connect: the simulated connect does not set
\* is_connected.
builtin_connect_leaves_flag(d) ==
  IF ~d.automation_engine
    THEN [out |-> "fail", msg |-> "engine not available", driver |-> d]
    ELSE IF d.vpn_config.automation_sequence = 0
      THEN [out |-> "ok", msg |-> "simulated", driver |-> d]
      ELSE [out |-> "ok", msg |-> "simulated via automation sequence",
            driver |-> [d EXCEPT !.is_connected = TRUE]]

\* Mutant of builtin_connect: a driver without an engine connects too.
builtin_connect_without_engine(d) ==
  IF d.vpn_config.automation_sequence = 0
    THEN [out |-> "ok", msg |-> "simulated",
          driver |-> [d EXCEPT !.is_connected = TRUE]]
    ELSE [out |-> "ok", msg |-> "simulated via automation sequence",
          driver |-> [d EXCEPT !.is_connected = TRUE]]

\* FortiClientDriver.connect / GlobalProtectDriver.connect
builtin_connect(d) ==
  IF ~d.automation_engine
    THEN [out |-> "fail", msg |-> "engine not available", driver |-> d]
    ELSE IF d.vpn_config.automation_sequence = 0
      THEN [out |-> "ok", msg |-> "simulated",
            driver |-> [d EXCEPT !.is_connected = TRUE]]
      ELSE [out |-> "ok", msg |-> "simulated via automation sequence",
            driver |-> [d EXCEPT !.is_connected = TRUE]]

\* Mutant of builtin_disconnect: a driver that is not connected reports
\* failure.
builtin_disconnect_needs_connection(d) ==
  IF ~d.is_connected
    THEN [out |-> "fail", msg |-> "not connected", driver |-> d]
    ELSE IF ~d.automation_engine
      THEN [out |-> "fail", msg |-> "engine not available",
            driver |-> [d EXCEPT !.is_connected = FALSE]]
      ELSE [out |-> "ok", msg |-> "disconnected",
            driver |-> [d EXCEPT !.is_connected = FALSE]]

\* FortiClientDriver.disconnect / GlobalProtectDriver.disconnect
builtin_disconnect(d) ==
  IF ~d.is_connected
    THEN [out |-> "ok", msg |-> "already disconnected", driver |-> d]
    ELSE IF ~d.automation_engine
      THEN [out |-> "fail", msg |-> "engine not available",
            driver |-> [d EXCEPT !.is_connected = FALSE]]
      ELSE [out |-> "ok", msg |-> "disconnected",
            driver |-> [d EXCEPT !.is_connected = FALSE]]

\* BaseVPNDriver.connect of any other driver: it succeeds (and is then
\* connected), reports failure, or raises.
custom_connect(d, env) ==
  [out |-> env.drv, msg |-> "custom",
   driver |-> IF env.drv = "ok" THEN [d EXCEPT !.is_connected = TRUE] ELSE d]

\* BaseVPNDriver.disconnect of any other driver.
custom_disconnect(d, env) ==
  [out |-> env.drv, msg |-> "custom",
   driver |-> IF env.drv = "ok" THEN [d EXCEPT !.is_connected = FALSE] ELSE d]

driver_connect(d, env) ==
  IF d.cls \in BuiltinDrivers THEN builtin_connect(d) ELSE custom_connect(d, env)

driver_disconnect(d, env) ==
  IF d.cls \in BuiltinDrivers THEN builtin_disconnect(d) ELSE custom_disconnect(d, env)

\* Mutant of driver_get_status: the flag is not read.
driver_get_status_constant(d, env) == "Connected"

\* get_status of the built-in drivers and of the dummy drivers: a read of
\* the flag; a custom one may raise.
driver_get_status(d, env) ==
  IF d.cls \notin BuiltinDrivers /\ env.drv = "raise"
    THEN "raise"
    ELSE IF d.is_connected THEN "Connected" ELSE "Disconnected"

\* BaseVPNDriver._execute_automation_step: whether the step is carried
\* out. A step is [action, arg], arg standing for its image_path or
\* text_to_type ("" when missing).
execute_automation_step(d, step) ==
  IF ~d.automation_engine
    THEN FALSE
    ELSE IF Lower(step.action) \in {"click_image", "type_text", "wait_for_image"}
      THEN Truthy(step.arg)
      ELSE FALSE

\* The calls connect() of a built-in driver makes on its automation engine
\* for the sequence seq: none, the loop over the steps being a placeholder
\* (a comment in FortiClientDriver, a print in GlobalProtectDriver).
builtin_connect_engine_calls(d, seq) == <<>>

(***************************************************************************)
(* VPNManager: registry and active-connection table.                       *)
(***************************************************************************)
\* Mutant of register_driver: an existing registration is kept.
register_driver_first_wins(reg, driver_type, driver_class) ==
  IF Lower(driver_type) \in DOMAIN reg
    THEN reg
    ELSE Put(reg, Lower(driver_type), driver_class)

register_driver(reg, driver_type, driver_class) ==
  Put(reg, Lower(driver_type), driver_class)

\* Mutant of create_connection: a type with no registration gets a
\* FortiClientDriver.
create_connection_default_class(reg, conns, profile_name, vpn_type, vpn_config, env) ==
  LET vpn_type_lower == Lower(vpn_type)
      cls == IF vpn_type_lower \in DOMAIN reg
               THEN reg[vpn_type_lower] ELSE "FortiClientDriver"
      c == construct(cls, FreshId(conns), profile_name, vpn_config, env)
  IN IF c.raised THEN NoDriver ELSE c.driver

\* Returns the new driver, or NoDriver (None) when the type has no
\* registration or the constructor raised.
create_connection(reg, conns, profile_name, vpn_type, vpn_config, env) ==
  LET vpn_type_lower == Lower(vpn_type) IN
    IF vpn_type_lower \notin DOMAIN reg
      THEN NoDriver
      ELSE LET c == construct(reg[vpn_type_lower], FreshId(conns),
                              profile_name, vpn_config, env)
           IN IF c.raised THEN NoDriver ELSE c.driver

\* Mutant of record_connection: the driver is recorded whatever connect()
\* returned.
record_connection_always(conns, profile_name, success, driver) ==
  Put(conns, profile_name, driver)

\* Mutant of record_connection: the driver is never recorded.
record_connection_never(conns, profile_name, success, driver) == conns

\* "if success: self.active_connections[profile_name] = driver"
record_connection(conns, profile_name, success, driver) ==
  IF success THEN Put(conns, profile_name, driver) ELSE conns

\* Mutant of drop_connection: the entry is removed whatever disconnect()
\* returned.
drop_connection_always(conns, profile_name, success, driver) ==
  Del(conns, profile_name)

\* "if success: del self.active_connections[profile_name]"; a driver that
\* did not disconnect stays recorded, with whatever the attempt did to it.
drop_connection(conns, profile_name, success, driver) ==
  IF success THEN Del(conns, profile_name) ELSE Put(conns, profile_name, driver)

\* An exception inside VPNManager.connect / disconnect is caught there and
\* reported as failure; DummyVPNManager overrides both without a try.
manager_catches(kind) == kind = "VPNManager"

\* VPNManager.connect and DummyVPNManager.connect
vpn_manager_connect(kind, reg, conns, profile_name, vpn_type, vpn_config, env) ==
  LET driver == create_connection(reg, conns, profile_name, vpn_type, vpn_config, env) IN
    IF driver = NoDriver
      THEN [raised |-> FALSE, success |-> FALSE, msg |-> "failed to create driver",
            conns |-> conns, events |-> <<"create_connection">>, drv |-> "-"]
      ELSE
        LET c == driver_connect(driver, env)
            ev == <<"create_connection", "driver.connect">>
        IN IF c.out = "raise"
             THEN IF manager_catches(kind)
                    THEN [raised |-> FALSE, success |-> FALSE,
                          msg |-> "unexpected error in VPNManager",
                          conns |-> conns, events |-> ev, drv |-> c.out]
                    ELSE [raised |-> TRUE, success |-> FALSE, msg |-> "",
                          conns |-> conns, events |-> ev, drv |-> c.out]
             ELSE [raised |-> FALSE, success |-> (c.out = "ok"), msg |-> c.msg,
                   conns |-> record_connection(conns, profile_name, c.out = "ok", c.driver),
                   events |-> ev, drv |-> c.out]

\* VPNManager.disconnect and DummyVPNManager.disconnect
vpn_manager_disconnect(kind, conns, profile_name, env) ==
  IF profile_name \notin DOMAIN conns
    THEN [raised |-> FALSE, success |-> TRUE, msg |-> "not actively connected",
          conns |-> conns, events |-> <<>>, drv |-> "-"]
    ELSE
      LET c == driver_disconnect(conns[profile_name], env)
          ev == <<"driver.disconnect">>
      IN IF c.out = "raise"
           THEN IF manager_catches(kind)
                  THEN [raised |-> FALSE, success |-> FALSE,
                        msg |-> "unexpected error in VPNManager",
                        conns |-> conns, events |-> ev, drv |-> c.out]
                  ELSE [raised |-> TRUE, success |-> FALSE, msg |-> "",
                        conns |-> conns, events |-> ev, drv |-> c.out]
           ELSE [raised |-> FALSE, success |-> (c.out = "ok"), msg |-> c.msg,
                 conns |-> drop_connection(conns, profile_name, c.out = "ok", c.driver),
                 events |-> ev, drv |-> c.out]

\* VPNManager.get_connection_status (not overridden by DummyVPNManager)
get_connection_status(conns, profile_name, env) ==
  IF profile_name \notin DOMAIN conns
    THEN "Not Connected"
    ELSE LET st == driver_get_status(conns[profile_name], env) IN
           IF st = "raise" THEN "Error retrieving status" ELSE st

(***************************************************************************)
(* RemoteAccessManager.initiate_access                                     *)
(***************************************************************************)
\* _launch_rdp / _launch_browser read the details with details.get(...),
\* which raises when the details are not a mapping; otherwise the launch
\* reports success or failure.
initiate_access(access_type, details, env) ==
  LET t == Lower(access_type) IN
    IF t \in {"rdp", "browser"}
      THEN IF details = "dict" THEN env.launch ELSE "raise"
      ELSE "fail"

(***************************************************************************)
(* ConnectionManager                                                       *)
(***************************************************************************)
\* Mutant of connect_guard: a different active profile does not refuse.
connect_guard_no_refusal(active, profile_name) ==
  IF Truthy(active) /\ active = profile_name THEN "already" ELSE "proceed"

\* Mutant of connect_guard: the active profile is connected again.
connect_guard_reconnects(active, profile_name) ==
  IF Truthy(active) /\ active # profile_name THEN "another" ELSE "proceed"

\* connect_to_profile, the check on entry: "already" (same profile active),
\* "another" (a different one active) or "proceed".
connect_guard(active, profile_name) ==
  IF Truthy(active)
    THEN IF active = profile_name THEN "already" ELSE "another"
    ELSE "proceed"

\* Mutant of connect_remote_access: initiate_access is called for every
\* descriptor that is present.
connect_remote_access_unchecked(profile_name, vpn_config, c, env) ==
  LET ra == vpn_config.remote_access
      ev == <<"load_profile">> \o c.events
  IN IF ra.present
       THEN LET a == initiate_access(ra.type, ra.details, env) IN
              IF a = "raise"
                THEN Raised(profile_name, c.conns,
                            ev \o <<"initiate_access">>, c.drv, a)
                ELSE Outcome(TRUE, "connected; remote access " \o a,
                             profile_name, c.conns,
                             ev \o <<"initiate_access">>, c.drv, a)
       ELSE Outcome(TRUE, "connected; no remote access configured",
                    profile_name, c.conns, ev, c.drv, "-")

\* Mutant of connect_remote_access: a remote access that fails fails the
\* connect.
connect_remote_access_required(profile_name, vpn_config, c, env) ==
  LET ra == vpn_config.remote_access
      ev == <<"load_profile">> \o c.events
  IN IF ra.present
       THEN IF Truthy(ra.type) /\ Truthy(ra.details) /\ ra.type # "None"
              THEN LET a == initiate_access(ra.type, ra.details, env) IN
                     IF a = "raise"
                       THEN Raised(profile_name, c.conns,
                                   ev \o <<"initiate_access">>, c.drv, a)
                       ELSE Outcome(a = "ok", "connected; remote access " \o a,
                                    profile_name, c.conns,
                                    ev \o <<"initiate_access">>, c.drv, a)
              ELSE IF ra.type = "None"
                     THEN Outcome(TRUE, "connected; remote access type is None",
                                  profile_name, c.conns, ev, c.drv, "-")
                     ELSE Outcome(TRUE, "connected; remote access type or details missing",
                                  profile_name, c.conns, ev, c.drv, "-")
       ELSE Outcome(TRUE, "connected; no remote access configured",
                    profile_name, c.conns, ev, c.drv, "-")

\* connect_to_profile, after vpn_manager.connect succeeded: the state is
\* set, then the remote-access descriptor is read and acted on.
connect_remote_access(profile_name, vpn_config, c, env) ==
  LET ra == vpn_config.remote_access
      ev == <<"load_profile">> \o c.events
  IN IF ra.present
       THEN IF Truthy(ra.type) /\ Truthy(ra.details) /\ ra.type # "None"
              THEN LET a == initiate_access(ra.type, ra.details, env) IN
                     IF a = "raise"
                       THEN Raised(profile_name, c.conns,
                                   ev \o <<"initiate_access">>, c.drv, a)
                       ELSE Outcome(TRUE, "connected; remote access " \o a,
                                    profile_name, c.conns,
                                    ev \o <<"initiate_access">>, c.drv, a)
              ELSE IF ra.type = "None"
                     THEN Outcome(TRUE, "connected; remote access type is None",
                                  profile_name, c.conns, ev, c.drv, "-")
                     ELSE Outcome(TRUE, "connected; remote access type or details missing",
                                  profile_name, c.conns, ev, c.drv, "-")
       ELSE Outcome(TRUE, "connected; no remote access configured",
                    profile_name, c.conns, ev, c.drv, "-")

\* connect_to_profile, the body of its try block.
connect_body(kind, store, reg, conns, active, profile_name, env) ==
  LET g == connect_guard(active, profile_name) IN
    IF g = "already"
      THEN Outcome(TRUE, "already connected", active, conns, <<>>, "-", "-")
    ELSE IF g = "another"
      THEN Outcome(FALSE, "another profile is active", active, conns, <<>>, "-", "-")
    ELSE
      LET profile_data == load_profile(store, profile_name) IN
        IF profile_data = NoProfile
          THEN Outcome(FALSE, "not found", active, conns, <<"load_profile">>, "-", "-")
        ELSE IF ~Truthy(profile_data.type)
          THEN Outcome(FALSE, "type not specified", active, conns,
                       <<"load_profile">>, "-", "-")
        ELSE
          LET c == vpn_manager_connect(kind, reg, conns, profile_name,
                                       profile_data.type, profile_data.config, env)
          IN IF c.raised
               THEN Raised(active, c.conns, <<"load_profile">> \o c.events, c.drv, "-")
             ELSE IF c.success
               THEN connect_remote_access(profile_name, profile_data.config, c, env)
             ELSE Outcome(FALSE, "failed to connect", active, c.conns,
                          <<"load_profile">> \o c.events, c.drv, "-")

\* Mutant of connect_recover: the failure pair, the state left as it was.
connect_recover_no_reset(r) ==
  IF r.raised
    THEN [r EXCEPT !.ok = FALSE, !.msg = "unexpected critical error"]
    ELSE r

\* Mutant of connect_recover: no except clause, the exception propagates.
connect_recover_reraises(r) == [r EXCEPT !.escaped = r.raised]

\* connect_to_profile, its except clause: the failure pair, with
\* current_active_profile reset.
connect_recover(r) ==
  IF r.raised
    THEN [r EXCEPT !.ok = FALSE, !.msg = "unexpected critical error", !.active = None]
    ELSE r

connect_to_profile(kind, store, reg, conns, active, profile_name, env) ==
  connect_recover(connect_body(kind, store, reg, conns, active, profile_name, env))

\* Mutant of disconnect_body: a successful disconnect leaves
\* current_active_profile set.
disconnect_body_keeps_active(kind, conns, active, env) ==
  IF ~Truthy(active)
    THEN Outcome(TRUE, "no profile active", active, conns, <<>>, "-", "-")
    ELSE
      LET c == vpn_manager_disconnect(kind, conns, active, env) IN
        IF c.raised
          THEN Raised(active, c.conns, c.events, c.drv, "-")
        ELSE IF c.success
          THEN Outcome(TRUE, "disconnected", active, c.conns, c.events, c.drv, "-")
        ELSE Outcome(FALSE, "failed to disconnect", active, c.conns, c.events, c.drv, "-")

\* disconnect_current_profile, the body of its try block.
disconnect_body(kind, conns, active, env) ==
  IF ~Truthy(active)
    THEN Outcome(TRUE, "no profile active", active, conns, <<>>, "-", "-")
    ELSE
      LET c == vpn_manager_disconnect(kind, conns, active, env) IN
        IF c.raised
          THEN Raised(active, c.conns, c.events, c.drv, "-")
        ELSE IF c.success
          THEN Outcome(TRUE, "disconnected", None, c.conns, c.events, c.drv, "-")
        ELSE Outcome(FALSE, "failed to disconnect", active, c.conns, c.events, c.drv, "-")

\* disconnect_current_profile, its except clause: the failure pair.
disconnect_recover(r) ==
  IF r.raised
    THEN [r EXCEPT !.ok = FALSE, !.msg = "unexpected critical error"]
    ELSE r

disconnect_current_profile(kind, conns, active, env) ==
  disconnect_recover(disconnect_body(kind, conns, active, env))

\* Mutant of get_current_connection_status: the Idle case is not told apart.
get_current_connection_status_asks_always(conns, active, env) ==
  get_connection_status(conns, active, env)

\* get_current_connection_status
get_current_connection_status(conns, active, env) ==
  IF ~Truthy(active)
    THEN "No active connection"
    ELSE get_connection_status(conns, active, env)

\* list_vpn_profiles: the listing, or [] when get_all_profiles raised.
list_vpn_profiles(store, files, env) ==
  LET r == get_all_profiles(store, files, env) IN
    [listing |-> IF r.raised THEN <<>> ELSE r.listing,
     raised |-> r.raised, escaped |-> FALSE]

(***************************************************************************)
(* The state machine.                                                      *)
(***************************************************************************)
\* The record of a call in `last`.
Call(op, name, r) ==
  [op |-> op, name |-> name,
   pre_active |-> current_active_profile,
   pre_conns |-> active_connections,
   pre_since |-> connected_since,
   ok |-> r.ok, msg |-> r.msg, status |-> r.status, listing |-> r.listing,
   events |-> r.events, drv |-> r.drv, ra |-> r.ra, raised |-> r.raised]

\* `last` when the last call was none of the orchestrator's.
NoCall ==
  [op |-> "none", name |-> None, pre_active |-> None,
   pre_conns |-> EmptyDict, pre_since |-> None,
   ok |-> TRUE, msg |-> "", status |-> "", listing |-> <<>>,
   events |-> <<>>, drv |-> "-", ra |-> "-", raised |-> FALSE]

\* The result of an orchestrator call that changes no state.
Plain(ok) == Outcome(ok, "", current_active_profile, active_connections, <<>>, "-", "-")

\* VPNManager(): the drivers found in vcal/drivers are registered.
DiscoveredDrivers ==
  [t \in {"forticlient", "globalprotect"} |->
     IF t = "forticlient" THEN "FortiClientDriver" ELSE "GlobalProtectDriver"]

\* No unserialized caller.
NoThreads == [t \in {} |-> t]

ConcUnused == threads = NoThreads

\* `store_call` when no call on the store alone has been made.
NoStoreCall ==
  [op |-> "none", name |-> None, type |-> "", config |-> Config(0, NoRemoteAccess),
   ok |-> TRUE, loaded |-> NoProfile, listing |-> <<>>,
   pre_store |-> EmptyDict, pre_saved |-> EmptyDict]

StoreUnused == store_call = NoStoreCall /\ saved = EmptyDict

\* The register_driver calls of _discover_drivers.
DiscoveredRegistrations ==
  << <<"forticlient", "FortiClientDriver">>,
     <<"globalprotect", "GlobalProtectDriver">> >>

\* `reg_call` when no call on the registry alone has been made.
NoRegCall ==
  [op |-> "none", name |-> None, type |-> "", ctor |-> "ok", driver |-> NoDriver,
   pre_created |-> EmptyDict]

RegUnused ==
  /\ registrations = DiscoveredRegistrations
  /\ created = EmptyDict
  /\ reg_call = NoRegCall

\* `driver_call` when no call on the driver alone has been made.
NoDriverCall ==
  [op |-> "none", out |-> "-", msg |-> "", status |-> "", calls |-> <<>>,
   pre_connected |-> FALSE]

DriverUnused == vpn_driver = NoDriver /\ steps = <<>> /\ driver_call = NoDriverCall

\* `engine_run` when no call on the engine is in progress or has been made.
NoEngineRun ==
  [op |-> "none", pc |-> "idle", timeout |-> 0, interval |-> 0,
   now |-> 0, find_start |-> 0, find_timeout |-> 0, find_interval |-> 0,
   probes |-> <<>>, result |-> "-", raised |-> FALSE]

EngineUnused == pyautogui_available = FALSE /\ engine_run = NoEngineRun

Init ==
  /\ manager_kind \in {"VPNManager", "DummyVPNManager"}
  /\ profiles = EmptyDict
  /\ registered_drivers = DiscoveredDrivers
  /\ active_connections = EmptyDict
  /\ current_active_profile = None
  /\ connected_since = None
  /\ escaped = FALSE
  /\ last = NoCall
  /\ ConcUnused
  /\ StoreUnused
  /\ RegUnused
  /\ DriverUnused
  /\ EngineUnused

SaveProfile ==
  \E n \in ProfileNames, tc \in SavePairs :
    /\ profiles' = save_profile(profiles, n, tc[1], tc[2])
    /\ last' = NoCall
    /\ UNCHANGED <<manager_kind, registered_drivers, active_connections,
                   current_active_profile, connected_since, escaped, aside>>

DeleteProfile ==
  \E n \in ProfileNames :
    LET r == delete_profile(profiles, n) IN
      /\ profiles' = r.store
      /\ last' = NoCall
      /\ UNCHANGED <<manager_kind, registered_drivers, active_connections,
                     current_active_profile, connected_since, escaped, aside>>

RegisterDriver ==
  \E t \in {"Custom"} :
    /\ registered_drivers' = register_driver(registered_drivers, t, "CustomDriver")
    /\ last' = NoCall
    /\ UNCHANGED <<manager_kind, profiles, active_connections,
                   current_active_profile, connected_since, escaped, aside>>

ConnectToProfile ==
  \E n \in ProfileNames, env \in ConnectEnvs :
    LET r == connect_to_profile(manager_kind, profiles, registered_drivers,
                                active_connections, current_active_profile, n, env)
    IN /\ current_active_profile' = r.active
       /\ active_connections' = r.conns
       /\ escaped' = (escaped \/ r.escaped)
       /\ connected_since' = IF r.ok /\ ~r.escaped THEN n ELSE connected_since
       /\ last' = Call("connect_to_profile", n, r)
       /\ UNCHANGED <<manager_kind, profiles, registered_drivers, aside>>

DisconnectCurrentProfile ==
  \E env \in DriverEnvs :
    LET r == disconnect_current_profile(manager_kind, active_connections,
                                        current_active_profile, env)
    IN /\ current_active_profile' = r.active
       /\ active_connections' = r.conns
       /\ escaped' = (escaped \/ r.escaped)
       /\ connected_since' = IF r.ok /\ ~r.escaped THEN None ELSE connected_since
       /\ last' = Call("disconnect_current_profile", None, r)
       /\ UNCHANGED <<manager_kind, profiles, registered_drivers, aside>>

GetCurrentConnectionStatus ==
  \E env \in DriverEnvs :
    LET st == get_current_connection_status(active_connections,
                                            current_active_profile, env)
    IN /\ last' = Call("get_current_connection_status", None,
                       [Plain(TRUE) EXCEPT !.status = st])
       /\ UNCHANGED <<manager_kind, profiles, registered_drivers, active_connections,
                      current_active_profile, connected_since, escaped, aside>>

ListVpnProfiles ==
  \E env \in ListEnvs, files \in listdir(profiles) :
    LET r == list_vpn_profiles(profiles, files, env) IN
      /\ last' = Call("list_vpn_profiles", None,
                      [Plain(TRUE) EXCEPT !.listing = r.listing, !.raised = r.raised])
      /\ escaped' = (escaped \/ r.escaped)
      /\ UNCHANGED <<manager_kind, profiles, registered_drivers, active_connections,
                     current_active_profile, connected_since, aside>>

Next ==
  \/ SaveProfile
  \/ DeleteProfile
  \/ RegisterDriver
  \/ ConnectToProfile
  \/ DisconnectCurrentProfile
  \/ GetCurrentConnectionStatus
  \/ ListVpnProfiles

Spec == Init /\ [][Next]_vars

(***************************************************************************)
(* Properties.                                                             *)
(***************************************************************************)
Idle == ~Truthy(current_active_profile)

WasConnect == last.op = "connect_to_profile"

WasDisconnect == last.op = "disconnect_current_profile"

\* C1: once connect_to_profile(A) has returned success and no disconnect
\* has succeeded since, connect_to_profile(B) for another name B returns
\* failure, leaves Connected(A), and makes no call to the profile store,
\* to the registry or to a driver.
C1_RefusesSecondProfile ==
  (WasConnect /\ last.pre_since # None /\ last.name # last.pre_since)
    => /\ ~last.ok
       /\ last.msg # ""
       /\ current_active_profile = last.pre_since
       /\ last.events = <<>>
       /\ active_connections = last.pre_conns

C1_Witness ==
  WasConnect /\ last.pre_since # None /\ last.name # last.pre_since

\* C2: the active-connection table holds at most one entry in every state
\* reached by serialized connect_to_profile / disconnect_current_profile
\* calls.
C2_AtMostOneEntry == Cardinality(DOMAIN active_connections) <= 1

\* C3: the orchestrator state and the table agree: the table holds exactly
\* the key current_active_profile when a profile is active and is empty
\* when the orchestrator is Idle; a call never replaces a recorded driver
\* by another instance.
C3_StateAndTableAgree ==
  /\ Idle => active_connections = EmptyDict
  /\ ~Idle => DOMAIN active_connections = {current_active_profile}
  /\ (WasConnect \/ WasDisconnect) =>
       \A n \in DOMAIN last.pre_conns \cap DOMAIN active_connections :
         active_connections[n].id = last.pre_conns[n].id

\* C4: a connect_to_profile call in which an exception reached the boundary
\* returns failure with current_active_profile None, and the orchestrator
\* is never in Connected(name) without a driver recorded for name.
C4_ExceptionResetsToIdle ==
  /\ (WasConnect /\ last.raised)
       => (~last.ok /\ last.msg # "" /\ current_active_profile = None)
  /\ ~Idle => current_active_profile \in DOMAIN active_connections

\* The exception came after the driver had connected.
C4_Witness == WasConnect /\ last.raised /\ last.drv = "ok" /\ last.ra = "raise"

\* C5: when, from Idle, the driver's connect() returns failure,
\* connect_to_profile returns failure, the table is as it was (the driver
\* is not recorded), the orchestrator is Idle and the status is
\* "No active connection".
C5_FailedConnectLeavesIdle ==
  (WasConnect /\ ~Truthy(last.pre_active) /\ last.drv = "fail")
    => /\ ~last.ok
       /\ last.msg # ""
       /\ active_connections = last.pre_conns
       /\ Idle
       /\ \A env \in DriverEnvs :
            get_current_connection_status(active_connections,
                                          current_active_profile, env)
              = "No active connection"

C5_Witness == WasConnect /\ ~Truthy(last.pre_active) /\ last.drv = "fail"

\* C6: disconnect_current_profile in Connected(name): when the driver's
\* disconnect() succeeds the entry is removed and the state is Idle; when
\* it returns failure the call returns failure, the state stays
\* Connected(name) and the same driver instance stays recorded.
C6_DisconnectOutcome ==
  (WasDisconnect /\ Truthy(last.pre_active))
    => /\ last.drv = "ok" =>
            /\ last.ok
            /\ last.pre_active \notin DOMAIN active_connections
            /\ Idle
       /\ last.drv = "fail" =>
            /\ ~last.ok
            /\ last.msg # ""
            /\ current_active_profile = last.pre_active
            /\ last.pre_active \in DOMAIN active_connections
            /\ active_connections[last.pre_active].id
                 = last.pre_conns[last.pre_active].id

C6_Witness == WasDisconnect /\ Truthy(last.pre_active) /\ last.drv = "fail"

\* What a disconnect_current_profile call made now would return and leave.
DisconnectNow(env) ==
  disconnect_current_profile(manager_kind, active_connections,
                             current_active_profile, env)

\* A disconnect_current_profile call made now returns success, calls no
\* driver and changes no state.
DisconnectNowIsNoOp ==
  \A env \in DriverEnvs :
    LET r == DisconnectNow(env) IN
      /\ r.ok
      /\ r.events = <<>>
      /\ r.active = current_active_profile
      /\ r.conns = active_connections

C8_AlreadyConnectedNoOp ==
  (WasConnect /\ Truthy(last.pre_active) /\ last.name = last.pre_active)
    => /\ last.ok
       /\ last.events = <<>>
       /\ last.ra = "-"
       /\ current_active_profile = last.pre_active
       /\ active_connections = last.pre_conns

C8_Witness == WasConnect /\ Truthy(last.pre_active) /\ last.name = last.pre_active

\* C9: an exception that reaches the orchestrator's boundary, in
\* connect_to_profile or in disconnect_current_profile, becomes a failure
\* result and the orchestrator is forced back to Idle.
C9_ExceptionForcesIdle ==
  ((WasConnect \/ WasDisconnect) /\ last.raised) => (~last.ok /\ Idle)

\* The operation did not do what it was called for.
CallFailed ==
  \/ WasConnect /\ current_active_profile # last.name
  \/ WasDisconnect /\ ~Idle
  \/ (WasConnect \/ WasDisconnect) /\ last.raised

StatusStrings ==
  {"No active connection", "Connected", "Disconnected", "Not Connected",
   "Error retrieving status"}

\* C10: no exception escapes list_vpn_profiles, connect_to_profile,
\* disconnect_current_profile or get_current_connection_status, and every
\* failure of connect or disconnect is returned as (False, message).
C10_NoExceptionEscapes ==
  /\ ~escaped
  /\ CallFailed => (~last.ok /\ last.msg # "")
  /\ last.op = "get_current_connection_status" => last.status \in StatusStrings

\* A driver's exception reached the orchestrator's boundary.
C10_Witness ==
  (WasConnect \/ WasDisconnect) /\ last.raised /\ last.drv = "raise"

WasStatus == last.op = "get_current_connection_status"

\* What get_status() of a driver returns when it returns.
StatusOf(d) == IF d.is_connected THEN "Connected" ELSE "Disconnected"

\* The call recorded in `last` left the orchestrator state, the table and
\* the recorded drivers as they were.
LastCallChangedNothing ==
  /\ current_active_profile = last.pre_active
  /\ active_connections = last.pre_conns

StatusNow ==
  get_current_connection_status(active_connections, current_active_profile,
                                DefaultEnv)

\* C12: after connect_to_profile(name) has succeeded through a registered
\* driver, get_current_connection_status returns "Connected"; after a
\* successful disconnect_current_profile that follows it,
\* get_current_connection_status returns "Disconnected".
C12_StatusAfterConnectAndDisconnect ==
  /\ (WasConnect /\ last.ok /\ last.drv = "ok") => StatusNow = "Connected"
  /\ (WasDisconnect /\ last.ok /\ last.pre_since # None /\ last.drv = "ok")
       => StatusNow = "Disconnected"

\* The elements of a sequence.
Range(s) == {s[i] : i \in DOMAIN s}

\* The store has no record for the name, or one without a type, or one
\* whose type has no registration.
Unresolvable(n) ==
  \/ n \notin DOMAIN profiles
  \/ ~Truthy(profiles[n].type)
  \/ Lower(profiles[n].type) \notin DOMAIN registered_drivers

\* C13: connect_to_profile(name) from Idle returns (False, message), stays
\* Idle, leaves the table as it was and calls no driver's connect() when
\* the profile is absent from the store, has no type, or names a type with
\* no registration; create_connection is called only after load_profile
\* has returned the profile.
C13_UnresolvableProfileFails ==
  /\ (WasConnect /\ ~Truthy(last.pre_active) /\ Unresolvable(last.name))
       => /\ ~last.ok
          /\ last.msg # ""
          /\ Idle
          /\ active_connections = last.pre_conns
          /\ "driver.connect" \notin Range(last.events)
  /\ WasConnect =>
       \A i \in DOMAIN last.events :
         last.events[i] = "create_connection"
           => /\ \E j \in 1..(i - 1) : last.events[j] = "load_profile"
              /\ last.name \in DOMAIN profiles

\* The profile was found and has a type, but the type has no registration.
C13_Witness ==
  /\ WasConnect /\ ~Truthy(last.pre_active)
  /\ last.name \in DOMAIN profiles
  /\ Truthy(profiles[last.name].type)
  /\ Lower(profiles[last.name].type) \notin DOMAIN registered_drivers
  /\ last.events = <<"load_profile", "create_connection">>

\* How often e occurs in the sequence s.
CountOf(s, e) == Cardinality({i \in DOMAIN s : s[i] = e})

\* The stored config of n has a remote_access descriptor with a non-empty
\* type other than "None" and non-empty details.
RemoteAccessDue(n) ==
  /\ n \in DOMAIN profiles
  /\ LET ra == profiles[n].config.remote_access IN
       ra.present /\ Truthy(ra.type) /\ Truthy(ra.details) /\ ra.type # "None"

\* C14: a connect_to_profile call calls initiate_access exactly once when
\* its driver connect succeeded and the config's remote_access descriptor
\* has a non-empty type other than "None" and non-empty details, and not at
\* all otherwise (driver connect failed or raised, call refused, profile
\* already connected); the call comes after the driver's connect, with the
\* driver recorded and the state Connected(name).
C14_RemoteAccessOncePerConnect ==
  /\ WasConnect =>
       LET k == CountOf(last.events, "initiate_access") IN
         /\ k = IF last.drv = "ok" /\ RemoteAccessDue(last.name) THEN 1 ELSE 0
         /\ Truthy(last.pre_active) => k = 0
         /\ k = 1 =>
              /\ last.events[Len(last.events)] = "initiate_access"
              /\ last.events[Len(last.events) - 1] = "driver.connect"
              /\ last.name \in DOMAIN active_connections
              /\ last.ra # "-"
         /\ k = 0 => last.ra = "-"
  /\ \A n \in ProfileNames, env \in ConnectEnvs :
       LET r == connect_body(manager_kind, profiles, registered_drivers,
                             active_connections, current_active_profile, n, env)
       IN r.ra # "-" => (r.active = n /\ n \in DOMAIN r.conns)

\* initiate_access was called, and the connect call returned success.
C14_Witness ==
  WasConnect /\ last.ok /\ CountOf(last.events, "initiate_access") = 1

(***************************************************************************)
(* Unserialized callers. ConnectionManager and VPNManager take no lock, so *)
(* two connect_to_profile calls made from different threads interleave     *)
(* between the statements that read or write current_active_profile and    *)
(* active_connections. A call is cut at those statements:                  *)
(*   check    lines 53-57   the test of current_active_profile             *)
(*   load     lines 59-67   load_profile and the type                      *)
(*   connect  line 71       vpn_manager.connect (records the driver)       *)
(*   set      line 74       current_active_profile = profile_name          *)
(*   remote   lines 78-92   remote access and the return                   *)
(***************************************************************************)
Callers == {"t1", "t2"}

\* A caller that has not called yet.
NotCalled ==
  [pc |-> "check", name |-> None, seen_active |-> None,
   profile_data |-> NoProfile, result |-> "-"]

\* The profiles in the store while the callers run.
ConcPairs ==
  { <<"forticlient", Config(0, NoRemoteAccess)>>,
    <<"FortiClient", Config(2, RemoteAccess("RDP", "dict"))>>,
    <<"globalprotect", Config(0, RemoteAccess("RDP", "str"))>> }

\* What the environment does to one step of a caller.
ConcEnvs == {[DefaultEnv EXCEPT !.engine = e] : e \in BOOLEAN}

ConcInit ==
  /\ manager_kind = "VPNManager"
  /\ \E a \in ConcPairs, b \in ConcPairs :
       profiles = save_profile(save_profile(EmptyDict, "A", a[1], a[2]),
                               "B", b[1], b[2])
  /\ registered_drivers = DiscoveredDrivers
  /\ active_connections = EmptyDict
  /\ current_active_profile = None
  /\ connected_since = None
  /\ escaped = FALSE
  /\ last = NoCall
  /\ threads = [t \in Callers |-> NotCalled]
  /\ StoreUnused
  /\ RegUnused
  /\ DriverUnused
  /\ EngineUnused

\* The caller returns.
Return(t, ok) ==
  [threads EXCEPT ![t].pc = "done", ![t].result = IF ok THEN "ok" ELSE "fail"]

\* Entry and the test of current_active_profile.
ThreadCheck(t) ==
  /\ threads[t].pc = "check"
  /\ \E n \in ProfileNames :
       LET g == connect_guard(current_active_profile, n)
           th == [threads EXCEPT ![t].name = n,
                                 ![t].seen_active = current_active_profile]
       IN threads' = IF g = "proceed"
                       THEN [th EXCEPT ![t].pc = "load"]
                       ELSE [th EXCEPT ![t].pc = "done",
                                       ![t].result =
                                         IF g = "already" THEN "ok" ELSE "fail"]
  /\ UNCHANGED <<manager_kind, profiles, registered_drivers, active_connections,
                 current_active_profile, conc_aside>>

\* load_profile and the test of the type.
ThreadLoad(t) ==
  /\ threads[t].pc = "load"
  /\ LET profile_data == load_profile(profiles, threads[t].name) IN
       threads' = IF profile_data = NoProfile \/ ~Truthy(profile_data.type)
                    THEN Return(t, FALSE)
                    ELSE [threads EXCEPT ![t].pc = "connect",
                                         ![t].profile_data = profile_data]
  /\ UNCHANGED <<manager_kind, profiles, registered_drivers, active_connections,
                 current_active_profile, conc_aside>>

\* vpn_manager.connect: the driver is created, connected and recorded.
ThreadConnect(t) ==
  /\ threads[t].pc = "connect"
  /\ \E env \in ConcEnvs :
       LET pd == threads[t].profile_data
           c == vpn_manager_connect(manager_kind, registered_drivers,
                                    active_connections, threads[t].name,
                                    pd.type, pd.config, env)
       IN /\ active_connections' = c.conns
          /\ current_active_profile' =
               IF c.raised THEN None ELSE current_active_profile
          /\ threads' = IF c.success /\ ~c.raised
                          THEN [threads EXCEPT ![t].pc = "set"]
                          ELSE Return(t, FALSE)
  /\ UNCHANGED <<manager_kind, profiles, registered_drivers, conc_aside>>

\* self.current_active_profile = profile_name
ThreadSetActive(t) ==
  /\ threads[t].pc = "set"
  /\ current_active_profile' = threads[t].name
  /\ threads' = [threads EXCEPT ![t].pc = "remote"]
  /\ UNCHANGED <<manager_kind, profiles, registered_drivers, active_connections,
                 conc_aside>>

\* Remote access and the return; the except clause resets
\* current_active_profile when initiate_access raised.
ThreadRemoteAccess(t) ==
  /\ threads[t].pc = "remote"
  /\ \E env \in ConcEnvs :
       LET c == [conns |-> active_connections, events |-> <<>>, drv |-> "ok"]
           r == connect_recover(
                  connect_remote_access(threads[t].name,
                                        threads[t].profile_data.config, c, env))
       IN /\ current_active_profile' =
               IF r.raised THEN r.active ELSE current_active_profile
          /\ threads' = Return(t, r.ok)
  /\ UNCHANGED <<manager_kind, profiles, registered_drivers, active_connections,
                 conc_aside>>

ConcNext ==
  \E t \in Callers :
    \/ ThreadCheck(t)
    \/ ThreadLoad(t)
    \/ ThreadConnect(t)
    \/ ThreadSetActive(t)
    \/ ThreadRemoteAccess(t)

ConcSpec == ConcInit /\ [][ConcNext]_vars

\* Both callers have returned success, for different profiles.
BothSucceeded ==
  /\ \A t \in Callers : threads[t].pc = "done" /\ threads[t].result = "ok"
  /\ threads["t1"].name # threads["t2"].name

\* C15: the check of current_active_profile and the later assignment are
\* not atomic: two unserialized connect_to_profile calls for different
\* profiles, started from Idle, can both return success; both then passed
\* the check seeing no active profile, the table holds a driver for each,
\* and current_active_profile names one of the two.
C15_CheckThenActRace ==
  BothSucceeded =>
    /\ \A t \in Callers : threads[t].seen_active = None
    /\ DOMAIN active_connections = {threads[t].name : t \in Callers}
    /\ Cardinality(DOMAIN active_connections) = Cardinality(Callers)
    /\ current_active_profile \in {threads[t].name : t \in Callers}

C15_Witness == BothSucceeded

(***************************************************************************)
(* The profile store on its own: VPNManager.save_profile, load_profile,    *)
(* delete_profile and get_all_profiles called in any order.                *)
(***************************************************************************)
\* The orchestrator is constructed and no call is made on it.
OrchUnused ==
  /\ manager_kind = "VPNManager"
  /\ registered_drivers = DiscoveredDrivers
  /\ active_connections = EmptyDict
  /\ current_active_profile = None
  /\ connected_since = None
  /\ escaped = FALSE
  /\ last = NoCall

\* What the specifications of the store leave alone.
store_aside ==
  <<manager_kind, registered_drivers, active_connections,
    current_active_profile, last, connected_since, escaped, conc_vars,
    reg_vars, driver_vars, engine_vars>>

\* The record of a call on the store.
StoreCall(op, n, t, c, ok, loaded, listing) ==
  [op |-> op, name |-> n, type |-> t, config |-> c, ok |-> ok,
   loaded |-> loaded, listing |-> listing,
   pre_store |-> profiles, pre_saved |-> saved]

StoreInit ==
  /\ OrchUnused
  /\ ConcUnused
  /\ profiles = EmptyDict
  /\ StoreUnused
  /\ RegUnused
  /\ DriverUnused
  /\ EngineUnused

StoreSave ==
  \E n \in ProfileNames, tc \in SavePairs :
    /\ profiles' = save_profile(profiles, n, tc[1], tc[2])
    /\ saved' = Put(saved, n, [name |-> n, type |-> tc[1], config |-> tc[2]])
    /\ store_call' = StoreCall("save", n, tc[1], tc[2], TRUE, NoProfile, <<>>)
    /\ UNCHANGED store_aside

StoreLoad ==
  \E n \in ProfileNames :
    /\ store_call' = StoreCall("load", n, "", NoProfile.config, TRUE,
                               load_profile(profiles, n), <<>>)
    /\ UNCHANGED <<profiles, saved, store_aside>>

StoreDelete ==
  \E n \in ProfileNames :
    LET r == delete_profile(profiles, n) IN
      /\ profiles' = r.store
      /\ saved' = IF n \in DOMAIN saved THEN Del(saved, n) ELSE saved
      /\ store_call' = StoreCall("delete", n, "", NoProfile.config, r.ok,
                                 NoProfile, <<>>)
      /\ UNCHANGED store_aside

StoreList ==
  \E files \in listdir(profiles) :
    LET r == get_all_profiles(profiles, files, DefaultEnv) IN
      /\ store_call' = StoreCall("list", None, "", NoProfile.config, ~r.raised,
                                 NoProfile, r.listing)
      /\ UNCHANGED <<profiles, saved, store_aside>>

StoreNext == StoreSave \/ StoreLoad \/ StoreDelete \/ StoreList

StoreSpec == StoreInit /\ [][StoreNext]_vars

\* What load_profile(name) returns when called right after the save
\* recorded in store_call.
LoadedAfterSave == load_profile(profiles, store_call.name)

Matches(rec, p) ==
  /\ rec.name = p.name
  /\ rec.config = p.config
  /\ Lower(rec.type) = Lower(p.type)

\* How many records of a listing carry the name n.
ListedTimes(listing, n) ==
  Cardinality({i \in DOMAIN listing : listing[i].name = n})

\* The store holds exactly the profiles of the map `saved`.
StoreIsMap ==
  /\ DOMAIN profiles = DOMAIN saved
  /\ \A n \in DOMAIN saved : Matches(load_profile(profiles, n), saved[n])

CorruptFile ==
  \E n \in ProfileNames :
    /\ profiles' = Put(profiles, n, CorruptRecord)
    /\ saved' = IF n \in DOMAIN saved THEN Del(saved, n) ELSE saved
    /\ store_call' = StoreCall("corrupt", n, "", NoProfile.config, TRUE,
                               NoProfile, <<>>)
    /\ UNCHANGED store_aside

CorruptStoreNext == StoreNext \/ CorruptFile

CorruptStoreSpec == StoreInit /\ [][CorruptStoreNext]_vars

\* The file of n exists and parses.
Readable(store, n) == n \in DOMAIN store /\ store[n] # CorruptRecord

\* C18: get_all_profiles returns every readable record exactly once and
\* nothing else, without raising, whatever unreadable files lie beside
\* them and wherever they come in the directory order; load_profile of an
\* unreadable record returns None without raising.
C18_CorruptRecordsAreSkipped ==
  /\ store_call.op = "list" =>
       /\ store_call.ok
       /\ \A n \in ProfileNames :
            ListedTimes(store_call.listing, n)
              = IF Readable(store_call.pre_store, n) THEN 1 ELSE 0
       /\ \A i \in DOMAIN store_call.listing :
            LET rec == store_call.listing[i] IN
              /\ Readable(store_call.pre_store, rec.name)
              /\ rec = store_call.pre_store[rec.name]
  /\ (store_call.op = "load" /\ store_call.name \in DOMAIN store_call.pre_store
        /\ ~Readable(store_call.pre_store, store_call.name))
       => (store_call.ok /\ store_call.loaded = NoProfile)

\* A listing was taken with an unreadable file beside a readable one.
C18_Witness ==
  /\ store_call.op = "list"
  /\ \E n, m \in ProfileNames :
       /\ Readable(store_call.pre_store, n)
       /\ m \in DOMAIN store_call.pre_store
       /\ ~Readable(store_call.pre_store, m)
  /\ Len(store_call.listing) = 1

(***************************************************************************)
(* The driver registry on its own: VPNManager.register_driver and          *)
(* create_connection called in any order.                                  *)
(***************************************************************************)
\* register_driver calls made in one run, those of _discover_drivers
\* included.
MaxRegistrations == 4

\* The types callers register and ask for, and the classes they register.
RegTypes == {"forticlient", "FortiClient", "Custom"}

RegClasses == {"GlobalProtectDriver", "CustomDriver"}

\* A custom constructor returns or raises.
CtorEnvs == {[DefaultEnv EXCEPT !.ctor = c] : c \in {"ok", "raise"}}

\* What the specification of the registry leaves alone.
reg_aside ==
  <<manager_kind, profiles, active_connections, current_active_profile,
    last, connected_since, escaped, conc_vars, store_vars, driver_vars,
    engine_vars>>

\* The record of a call on the registry.
RegCall(op, n, t, ctor, d) ==
  [op |-> op, name |-> n, type |-> t, ctor |-> ctor, driver |-> d,
   pre_created |-> IF op = "register" THEN created ELSE EmptyDict]

RegInit ==
  /\ OrchUnused
  /\ ConcUnused
  /\ profiles = EmptyDict
  /\ StoreUnused
  /\ RegUnused
  /\ DriverUnused
  /\ EngineUnused

RegRegister ==
  \E t \in RegTypes, cls \in RegClasses :
    /\ Len(registrations) < MaxRegistrations
    /\ registered_drivers' = register_driver(registered_drivers, t, cls)
    /\ registrations' = Append(registrations, <<t, cls>>)
    /\ reg_call' = RegCall("register", None, t, "ok", NoDriver)
    /\ UNCHANGED <<created, reg_aside>>

\* The drivers callers hold, by profile name.
Held == [n \in DOMAIN created |-> created[n].driver]

\* create_connection; the caller keeps the driver it got.
RegCreate ==
  \E n \in ProfileNames, t \in RegTypes, env \in CtorEnvs :
    LET d == create_connection(registered_drivers, Held, n, t,
                               Config(0, NoRemoteAccess), env)
    IN /\ reg_call' = RegCall("create", n, t, env.ctor, d)
       /\ created' = IF d = NoDriver
                       THEN created
                       ELSE Put(created, n,
                                [driver |-> d, type |-> t,
                                 at |-> Len(registrations)])
       /\ UNCHANGED <<registered_drivers, registrations, reg_aside>>

RegNext == RegRegister \/ RegCreate

RegSpec == RegInit /\ [][RegNext]_vars

\* The class registered last, in the calls hist, under a type equal to t
\* when case is ignored; "" when there is none.
LatestClass(hist, t) ==
  LET hits == {i \in DOMAIN hist : Lower(hist[i][1]) = Lower(t)} IN
    IF hits = {}
      THEN ""
      ELSE hist[CHOOSE i \in hits : \A j \in hits : j <= i][2]

\* Every driver a caller holds is of the class that was registered last
\* when it was created.
HeldDriversUnaltered ==
  \A n \in DOMAIN created :
    /\ created[n].driver.cls
         = LatestClass(SubSeq(registrations, 1, created[n].at), created[n].type)
    /\ created[n].driver.profile_name = n

\* C19 as claimed: create_connection(profile, T, config) returns a driver
\* of the class registered last under a type equal to T when case is
\* ignored, and returns no driver exactly when there is no such
\* registration; registering a type again alters no driver created before.
C19_RegistryLastWins ==
  /\ reg_call.op = "create" =>
       LET cls == LatestClass(registrations, reg_call.type) IN
         /\ (reg_call.driver = NoDriver) <=> (cls = "")
         /\ reg_call.driver # NoDriver => reg_call.driver.cls = cls
  /\ reg_call.op = "register" => created = reg_call.pre_created
  /\ HeldDriversUnaltered

\* C19, amended: create_connection(profile, T, config) returns a driver of
\* the class registered last under a type equal to T when case is ignored,
\* and returns no driver exactly when there is no such registration or
\* the registered constructor raises; registering a type again alters no
\* driver created before.
C19_RegistryLastWinsUnlessCtorRaises ==
  /\ reg_call.op = "create" =>
       LET cls == LatestClass(registrations, reg_call.type) IN
         /\ (reg_call.driver = NoDriver)
              <=> (cls = "" \/ (cls \notin BuiltinDrivers /\ reg_call.ctor = "raise"))
         /\ reg_call.driver # NoDriver => reg_call.driver.cls = cls
  /\ reg_call.op = "register" => created = reg_call.pre_created
  /\ HeldDriversUnaltered

\* A type was registered again, under another spelling, after a driver of
\* its earlier class had been created.
C19_Witness ==
  /\ reg_call.op = "register"
  /\ \E n \in DOMAIN created :
       /\ Lower(created[n].type) = Lower(reg_call.type)
       /\ created[n].type # reg_call.type
       /\ created[n].driver.cls # LatestClass(registrations, reg_call.type)

(***************************************************************************)
(* A built-in driver on its own: FortiClientDriver / GlobalProtectDriver   *)
(* constructed over a config and called directly.                          *)
(***************************************************************************)
\* Longest automation_sequence.
MaxSteps == 2

\* The steps of a sequence: two well-formed ones, one without its image
\* path and one of an action _execute_automation_step does not know.
Steps ==
  { [action |-> "click_image", arg |-> "connect_button.png"],
    [action |-> "type_text", arg |-> "vpn.example.com"],
    [action |-> "click_image", arg |-> ""],
    [action |-> "scroll", arg |-> ""] }

\* The sequences of at most MaxSteps steps.
Sequences == UNION {[1..n -> Steps] : n \in 0..MaxSteps}

\* What the specification of the driver leaves alone.
driver_aside ==
  <<manager_kind, profiles, registered_drivers, active_connections,
    current_active_profile, last, connected_since, escaped, conc_vars,
    store_vars, reg_vars, engine_vars>>

\* The record of a call on the driver.
DriverCall(op, out, msg, status, calls) ==
  [op |-> op, out |-> out, msg |-> msg, status |-> status, calls |-> calls,
   pre_connected |-> vpn_driver.is_connected]

DriverInit ==
  /\ OrchUnused
  /\ ConcUnused
  /\ profiles = EmptyDict
  /\ StoreUnused
  /\ RegUnused
  /\ steps \in Sequences
  /\ \E cls \in BuiltinDrivers, e \in BOOLEAN :
       vpn_driver = construct(cls, 1, "A", Config(Len(steps), NoRemoteAccess),
                          [DefaultEnv EXCEPT !.engine = e]).driver
  /\ driver_call = NoDriverCall
  /\ EngineUnused

DriverConnect ==
  LET c == builtin_connect(vpn_driver) IN
    /\ vpn_driver' = c.driver
    /\ driver_call' = DriverCall("connect", c.out, c.msg, "",
                                 builtin_connect_engine_calls(vpn_driver, steps))
    /\ UNCHANGED <<steps, driver_aside>>

DriverDisconnect ==
  LET c == builtin_disconnect(vpn_driver) IN
    /\ vpn_driver' = c.driver
    /\ driver_call' = DriverCall("disconnect", c.out, c.msg, "", <<>>)
    /\ UNCHANGED <<steps, driver_aside>>

DriverGetStatus ==
  /\ driver_call' = DriverCall("get_status", "ok", "",
                               driver_get_status(vpn_driver, DefaultEnv), <<>>)
  /\ UNCHANGED <<vpn_driver, steps, driver_aside>>

DriverNext == DriverConnect \/ DriverDisconnect \/ DriverGetStatus

DriverSpec == DriverInit /\ [][DriverNext]_vars

\* The first step of seq that the driver d cannot carry out; 0 when it can
\* carry out every step.
FirstFailingStep(d, seq) ==
  LET bad == {i \in DOMAIN seq : ~execute_automation_step(d, seq[i])} IN
    IF bad = {} THEN 0 ELSE CHOOSE i \in bad : \A j \in bad : i <= j

\* C20: for a non-empty automation_sequence, connect() of a driver with an
\* automation engine carries out the steps on the engine in sequence
\* order, stops at the first step that fails and then returns
\* (False, reason) without raising and without setting is_connected; it
\* returns (True, ...) and sets is_connected only when every step
\* succeeded.
C20_ConnectRunsTheSequence ==
  (driver_call.op = "connect" /\ vpn_driver.automation_engine /\ steps # <<>>) =>
    LET k == FirstFailingStep(vpn_driver, steps) IN
      /\ driver_call.out \in {"ok", "fail"}
      /\ driver_call.calls = IF k = 0 THEN steps ELSE SubSeq(steps, 1, k)
      /\ k # 0 =>
           /\ driver_call.out = "fail"
           /\ driver_call.msg # ""
           /\ vpn_driver.is_connected = driver_call.pre_connected
      /\ driver_call.out = "ok" => (k = 0 /\ vpn_driver.is_connected)

C22_DriverDisconnectIdempotent ==
  /\ (driver_call.op = "disconnect" /\ ~driver_call.pre_connected) =>
       /\ driver_call.out = "ok"
       /\ driver_call.msg = "already disconnected"
       /\ ~vpn_driver.is_connected
       /\ driver_call.calls = <<>>
  /\ (driver_call.op = "disconnect" /\ driver_call.out = "ok") =>
       /\ builtin_disconnect(vpn_driver).out = "ok"
       /\ builtin_disconnect(vpn_driver).driver = vpn_driver
       /\ driver_get_status(vpn_driver, DefaultEnv) = "Disconnected"
  /\ ~vpn_driver.is_connected =>
       /\ builtin_disconnect(vpn_driver).out = "ok"
       /\ builtin_disconnect(vpn_driver).driver = vpn_driver

\* disconnect() was called on a driver that was not connected.
C22_Witness ==
  /\ driver_call.op = "disconnect" /\ ~driver_call.pre_connected
  /\ vpn_driver.automation_engine /\ driver_call.msg = "already disconnected"

\* C23: get_status() returns "Connected" when is_connected is True and
\* "Disconnected" otherwise; the call changes no state of the driver and
\* makes no call on the automation engine.
C23_GetStatusIsPureRead ==
  driver_call.op = "get_status" =>
    /\ driver_call.status
         = IF vpn_driver.is_connected THEN "Connected" ELSE "Disconnected"
    /\ driver_call.out = "ok"
    /\ vpn_driver.is_connected = driver_call.pre_connected
    /\ driver_call.calls = <<>>

\* The status of a connected driver was read.
C23_Witness ==
  driver_call.op = "get_status" /\ driver_call.status = "Connected"

\* ---------------------------------------------------------------------------
\* The automation engine on its own (automation_engine/engine.py).
\*
\* Time is counted in ticks of a quarter of a second since the call started
\* (the call's `start_time`).  A probe is one call of pyautogui.locateOnScreen;
\* it returns a location ("found"), returns nothing ("none"), raises
\* ImageNotFoundException ("not_found"), or raises any other exception
\* ("error").  A probe takes between 1 and MaxLatency ticks, a sleep takes
\* the time it was asked for.
\* ---------------------------------------------------------------------------

MaxTimeout == 4
MaxInterval == 2
MaxLatency == 2

\* AutomationEngine.__init__: default_interval=0.5 s.
DefaultInterval == 2

\* The `timeout=1` wait_for_image_to_disappear hands to each find it makes.
InnerTimeout == 4

Timeouts == 0..MaxTimeout
Intervals == 0..MaxInterval
Latencies == 1..MaxLatency
ProbeOutcomes == {"found", "none", "not_found", "error"}

EngineOps ==
  {"find_image_on_screen", "click_on_image", "wait_for_image_to_appear",
   "wait_for_image_to_disappear", "get_screen_resolution"}

\* AutomationEngine(): __init__ stores its arguments and the availability
\* of the backend, and raises in neither case.
engine_constructs(available) == TRUE

\* Mutant of unavailable_result: every operation returns None without the
\* backend.
unavailable_result_none(op) == "None"

\* What each operation returns on its first line when the backend is absent.
unavailable_result(op) ==
  CASE op = "find_image_on_screen" -> "None"
    [] op = "click_on_image" -> "False"
    [] op = "wait_for_image_to_appear" -> "False"
    [] op = "wait_for_image_to_disappear" -> "True"
    [] op = "get_screen_resolution" -> "(0, 0)"

\* The call returns `result`.
engine_return(run, result) == [run EXCEPT !.pc = "idle", !.result = result]

\* find_image_on_screen is entered with timeout `to` and interval `inv`:
\* start_time = time.time().
find_enter(run, to, inv) ==
  [run EXCEPT !.pc = "find_loop", !.find_start = run.now,
              !.find_timeout = to, !.find_interval = inv]

\* find_image_on_screen returns `location` ("location" or "None") to the
\* operation that called it.
find_return(run, location) ==
  CASE run.op = "find_image_on_screen" -> engine_return(run, location)
    [] run.op = "wait_for_image_to_appear" ->
         engine_return(run, IF location # "None" THEN "True" ELSE "False")
    [] run.op = "click_on_image" ->
         IF location # "None" THEN [run EXCEPT !.pc = "click"]
         ELSE engine_return(run, "False")
    [] run.op = "wait_for_image_to_disappear" ->
         IF location = "None" THEN engine_return(run, "True")
         ELSE [run EXCEPT !.pc = "outer_sleep"]

\* One probe of the find loop, with what the backend did and how long it took.
find_probe(run, outcome, latency) ==
  LET probed ==
        [run EXCEPT !.probes = Append(run.probes,
                                 [at |-> run.now,
                                  find_at |-> run.now - run.find_start,
                                  outcome |-> outcome]),
                    !.now = run.now + latency]
  IN CASE outcome = "found" -> find_return(probed, "location")
       [] outcome \in {"none", "not_found"} -> [probed EXCEPT !.pc = "find_sleep"]
       [] outcome = "error" -> find_return(probed, "None")

\* The engine is imported with or without its backend; no call has been made.
EngineInit ==
  /\ OrchUnused
  /\ ConcUnused
  /\ profiles = EmptyDict
  /\ StoreUnused
  /\ RegUnused
  /\ DriverUnused
  /\ pyautogui_available \in BOOLEAN
  /\ engine_run = NoEngineRun

engine_aside ==
  <<manager_kind, profiles, registered_drivers, active_connections,
    current_active_profile, last, connected_since, escaped, conc_vars,
    store_vars, reg_vars, driver_vars>>

\* A caller calls one of the operations.  Without the backend it returns at
\* once; with it, find, click and appear enter the find loop, disappear
\* reaches its own loop, and get_screen_resolution asks the backend, which
\* answers or raises.
EngineCall ==
  \E op \in EngineOps, to \in Timeouts, inv \in Intervals, size \in {"ok", "raise"} :
    LET run == [NoEngineRun EXCEPT !.op = op, !.timeout = to, !.interval = inv]
    IN /\ engine_run.pc = "idle"
       /\ engine_run' =
            IF ~pyautogui_available THEN engine_return(run, unavailable_result(op))
            ELSE CASE op = "find_image_on_screen" -> find_enter(run, to, inv)
                   [] op \in {"click_on_image", "wait_for_image_to_appear"} ->
                        find_enter(run, to, DefaultInterval)
                   [] op = "wait_for_image_to_disappear" ->
                        [run EXCEPT !.pc = "outer_loop"]
                   [] op = "get_screen_resolution" ->
                        IF size = "ok" THEN engine_return(run, "size")
                        ELSE [engine_return(run, "-") EXCEPT !.raised = TRUE]
       /\ UNCHANGED <<pyautogui_available, engine_aside>>

\* while time.time() - start_time < to: one probe.
EngineProbe ==
  \E outcome \in ProbeOutcomes, latency \in Latencies :
    /\ engine_run.pc = "find_loop"
    /\ engine_run.now - engine_run.find_start < engine_run.find_timeout
    /\ engine_run' = find_probe(engine_run, outcome, latency)
    /\ UNCHANGED <<pyautogui_available, engine_aside>>

\* time.sleep(inv) at the end of the find loop's body.
EngineFindSleep ==
  /\ engine_run.pc = "find_sleep"
  /\ engine_run' = [engine_run EXCEPT !.pc = "find_loop",
                                      !.now = @ + engine_run.find_interval]
  /\ UNCHANGED <<pyautogui_available, engine_aside>>

\* The find loop's condition fails: return None.
EngineFindTimeout ==
  /\ engine_run.pc = "find_loop"
  /\ engine_run.now - engine_run.find_start >= engine_run.find_timeout
  /\ engine_run' = find_return(engine_run, "None")
  /\ UNCHANGED <<pyautogui_available, engine_aside>>

\* click_on_image found its image: center and click, or an exception caught.
EngineClick ==
  \E click \in {"ok", "raise"} :
    /\ engine_run.pc = "click"
    /\ engine_run' = engine_return(engine_run, IF click = "ok" THEN "True" ELSE "False")
    /\ UNCHANGED <<pyautogui_available, engine_aside>>

\* wait_for_image_to_disappear's loop condition: another find with
\* timeout=1 and the default interval, or return False.
EngineDisappearLoop ==
  /\ engine_run.pc = "outer_loop"
  /\ engine_run' =
       IF engine_run.now < engine_run.timeout
       THEN find_enter(engine_run, InnerTimeout, DefaultInterval)
       ELSE engine_return(engine_run, "False")
  /\ UNCHANGED <<pyautogui_available, engine_aside>>

\* wait_for_image_to_disappear still sees the image: time.sleep(inv).
EngineDisappearSleep ==
  /\ engine_run.pc = "outer_sleep"
  /\ engine_run' = [engine_run EXCEPT !.pc = "outer_loop",
                                      !.now = @ + engine_run.interval]
  /\ UNCHANGED <<pyautogui_available, engine_aside>>

EngineStep ==
  \/ EngineProbe
  \/ EngineFindSleep
  \/ EngineFindTimeout
  \/ EngineClick
  \/ EngineDisappearLoop
  \/ EngineDisappearSleep

EngineNext == EngineCall \/ EngineStep

EngineSpec == EngineInit /\ [][EngineNext]_vars

\* Each probe returns and the clock advances: a call in progress goes on.
EngineLiveSpec == EngineSpec /\ WF_vars(EngineStep)

\* ---------------------------------------------------------------------------
\* Properties of the automation engine.
\* ---------------------------------------------------------------------------

\* The call of `op` has returned or raised, with the backend available.
EngineDone(op) ==
  pyautogui_available /\ engine_run.op = op /\ engine_run.pc = "idle"

\* The probe did not see the image and did not fail either.
Missed(probe) == probe.outcome \in {"none", "not_found"}

\* C24: with the backend available, find_image_on_screen returns a location
\* only when its last probe, and no probe before it, found the image; it
\* returns None only once the time since its start has reached the timeout
\* and every probe missed; and a probe that failed with a backend error makes
\* the call raise instead of returning.
C24_FindReturnsFirstMatchOrTimesOut ==
  EngineDone("find_image_on_screen") =>
    LET run == engine_run
        n == Len(run.probes)
    IN /\ run.result = "location" =>
            /\ n > 0 /\ run.probes[n].outcome = "found"
            /\ \A i \in 1..(n - 1) : Missed(run.probes[i])
       /\ run.result = "None" =>
            /\ run.now >= run.timeout
            /\ \A i \in 1..n : Missed(run.probes[i])
       /\ (\E i \in 1..n : run.probes[i].outcome = "error") => run.raised

\* The results documented for an absent backend.
AbsentResult ==
  [find_image_on_screen |-> "None",
   wait_for_image_to_disappear |-> "True",
   get_screen_resolution |-> "(0, 0)",
   click_on_image |-> "False",
   wait_for_image_to_appear |-> "False"]

\* The profiles of the headless cycle: a built-in driver, with or without
\* an automation sequence and a well-formed remote access descriptor.
HeadlessPairs ==
  {<<t, Config(n, ra)>> :
     t \in DOMAIN DiscoveredDrivers, n \in {0, MaxSteps},
     ra \in {NoRemoteAccess, RemoteAccess("RDP", "dict")}}

\* connect_to_profile, get_current_connection_status and
\* disconnect_current_profile, one after the other from Idle on a store
\* holding the profile, with the engine as the import left it: each succeeds.
HeadlessCycle(pair, launch) ==
  LET env == [DefaultEnv EXCEPT !.engine = engine_constructs(pyautogui_available),
                                !.launch = launch]
      store == save_profile(EmptyDict, "A", pair[1], pair[2])
      c == connect_to_profile("VPNManager", store, DiscoveredDrivers,
                              EmptyDict, None, "A", env)
      st == get_current_connection_status(c.conns, c.active, env)
      d == disconnect_current_profile("VPNManager", c.conns, c.active, env)
  IN /\ c.ok /\ ~c.raised /\ c.active = "A"
     /\ st = "Connected"
     /\ d.ok /\ ~d.raised /\ ~Truthy(d.active) /\ d.conns = EmptyDict

\* C25: with the backend unavailable, every operation of the engine returns
\* at once the result documented for an absent backend (find None, disappear
\* True, resolution (0, 0), click and appear False), raises nothing and makes
\* no probe; and connect, status and disconnect through the orchestrator
\* with a built-in driver each succeed.
C25_HeadlessOperation ==
  ~pyautogui_available =>
    /\ engine_run.op # "none" =>
         /\ engine_run.pc = "idle"
         /\ engine_run.result = AbsentResult[engine_run.op]
         /\ ~engine_run.raised
         /\ engine_run.probes = <<>>
         /\ engine_run.now = 0
    /\ \A pair \in HeadlessPairs, launch \in {"ok", "fail"} :
         HeadlessCycle(pair, launch)

\* wait_for_image_to_disappear was called without the backend and returned
\* True.
C25_Witness ==
  /\ ~pyautogui_available
  /\ engine_run.op = "wait_for_image_to_disappear"
  /\ engine_run.result = "True"

\* ---------------------------------------------------------------------------
\* Properties of the orchestrator, continued (specification Spec).
\* ---------------------------------------------------------------------------

\* C26: when initiate_access returned (False, msg) in a connect_to_profile
\* call, the call still returns (True, message) with msg in the message and
\* raises nothing, the orchestrator is Connected(name), and the driver that
\* connected is recorded under the name, connected.
C26_RemoteAccessFailureKeepsConnection ==
  (WasConnect /\ last.ra = "fail") =>
    /\ last.ok /\ ~last.raised
    /\ last.msg = "connected; remote access fail"
    /\ current_active_profile = last.name
    /\ last.name \in DOMAIN active_connections
    /\ active_connections[last.name].profile_name = last.name
    /\ last.drv = "ok"

\* connect_to_profile ran on a profile whose remote access is of a type the
\* remote access manager does not support, and initiate_access returned
\* failure.
C26_Witness ==
  /\ WasConnect /\ last.ra = "fail"
  /\ last.name \in DOMAIN profiles
  /\ profiles[last.name].config.remote_access.type = "ssh"

\* The orchestrator is Connected(name) and the driver recorded under the
\* name is one of the built-in drivers.
ConnectedThroughBuiltin ==
  /\ ~Idle
  /\ current_active_profile \in DOMAIN active_connections
  /\ active_connections[current_active_profile].cls \in BuiltinDrivers

\* C27: in every reachable state where the orchestrator is Connected(name),
\* a driver is recorded under the name; when it is a built-in driver its
\* is_connected flag is set and get_current_connection_status returns
\* "Connected", and it holds an automation engine, so that its disconnect()
\* returns success and never a failure with is_connected cleared.
C27_BuiltinStateAndFlagAgree ==
  /\ ~Idle => current_active_profile \in DOMAIN active_connections
  /\ ConnectedThroughBuiltin =>
       LET d == active_connections[current_active_profile] IN
         /\ d.is_connected
         /\ \A env \in DriverEnvs :
              get_current_connection_status(active_connections,
                                            current_active_profile, env) = "Connected"
         /\ d.automation_engine
         /\ builtin_disconnect(d).out = "ok"
         /\ \A env \in DriverEnvs : DisconnectNow(env).ok /\ ~Truthy(DisconnectNow(env).active)

\* get_current_connection_status was called in Connected(name) with a
\* built-in driver recorded, and returned "Connected".
C27_Witness ==
  /\ ConnectedThroughBuiltin
  /\ WasStatus
  /\ last.status = "Connected"

\* ---------------------------------------------------------------------------
\* Properties of the automation engine, continued (specification EngineSpec).
\* ---------------------------------------------------------------------------

\* Probe i is the first of a poll (a find made by the call) that started
\* before the call's timeout, and it and every probe after it missed: the
\* call's last poll looked for the target and did not see it.
LastPollSawNothingFrom(run, i) ==
  /\ run.probes[i].find_at = 0
  /\ run.probes[i].at < run.timeout
  /\ \A j \in i..Len(run.probes) : Missed(run.probes[j])

\* C28: with the backend available, wait_for_image_to_disappear returns True
\* only if a poll made within the timeout looked for the target and did not
\* see it, and never when a probe failed with a backend error;
\* wait_for_image_to_appear returns True only if its last probe found the
\* target.
C28_WaitResultsAreObserved ==
  LET run == engine_run
      n == Len(run.probes)
  IN /\ (EngineDone("wait_for_image_to_disappear") /\ run.result = "True") =>
          /\ \E i \in 1..n : LastPollSawNothingFrom(run, i)
          /\ \A i \in 1..n : run.probes[i].outcome # "error"
     /\ (EngineDone("wait_for_image_to_appear") /\ run.result = "True") =>
          /\ n > 0
          /\ run.probes[n].outcome = "found"

\* ---------------------------------------------------------------------------
\* Properties of the orchestrator, continued (specification Spec).
\* ---------------------------------------------------------------------------

\* The step writes or deletes a profile of the store while the orchestrator
\* is Connected(name).
StoreChangesWhileConnected == ~Idle /\ profiles' # profiles

\* C29: a step that overwrites or deletes a profile of the store while the
\* orchestrator is Connected(name) changes neither the orchestrator state nor
\* the table of drivers, the active driver and its config included;
\* afterwards get_current_connection_status returns what it returned before,
\* the status of the recorded driver, and disconnect_current_profile, with
\* the driver's disconnect() succeeding, returns success and leaves Idle.
C29_StoreChangeLeavesConnection ==
  [][StoreChangesWhileConnected =>
       /\ current_active_profile' = current_active_profile
       /\ active_connections' = active_connections
       /\ connected_since' = connected_since
       /\ current_active_profile' \in DOMAIN active_connections'
       /\ \A env \in DriverEnvs :
            get_current_connection_status(active_connections,
                                          current_active_profile, env)' =
              get_current_connection_status(active_connections,
                                            current_active_profile, env)
       /\ (ConnectedThroughBuiltin =>
             StatusNow' = StatusOf(active_connections[current_active_profile]))
       /\ DisconnectNow(DefaultEnv)'.ok
       /\ ~Truthy(DisconnectNow(DefaultEnv)'.active)
       /\ DisconnectNow(DefaultEnv)'.conns = Del(active_connections,
                                                 current_active_profile)]_vars

\* The orchestrator is Connected(name), the last call wrote or deleted a
\* profile, and the store no longer holds the config the active driver was
\* built from: the profile is gone or was overwritten.
C29_Witness ==
  /\ ~Idle
  /\ current_active_profile \in DOMAIN active_connections
  /\ last.op = "none"
  /\ \/ current_active_profile \notin DOMAIN profiles
     \/ profiles[current_active_profile].config
          # active_connections[current_active_profile].vpn_config

\* ---------------------------------------------------------------------------
\* Properties of the automation engine, continued (specifications EngineSpec
\* and EngineLiveSpec).
\* ---------------------------------------------------------------------------

\* The operation in progress or returned is one of the two polling
\* operations, with the backend available.
Polling ==
  /\ pyautogui_available
  /\ engine_run.op \in {"find_image_on_screen", "wait_for_image_to_disappear"}

\* C30 (no late probe): for every timeout and every interval >= 0, with
\* every probe returning and the clock advancing, neither
\* find_image_on_screen nor wait_for_image_to_disappear starts a probe once
\* the time elapsed since the call started has reached the call's timeout.
C30_NoProbeAfterTimeout ==
  Polling =>
    \A i \in 1..Len(engine_run.probes) :
      engine_run.probes[i].at < engine_run.timeout

\* The same for find_image_on_screen alone.
FindNoProbeAfterTimeout ==
  (Polling /\ engine_run.op = "find_image_on_screen") =>
    \A i \in 1..Len(engine_run.probes) :
      engine_run.probes[i].at < engine_run.timeout

\* C30 (termination): under the same assumptions, every call of
\* find_image_on_screen or wait_for_image_to_disappear returns a result.
C30_PollingTerminates ==
  (Polling /\ engine_run.pc # "idle")
    ~> (Polling /\ engine_run.pc = "idle" /\ engine_run.result # "-")

====
